---------------------------- MODULE Spec2Model ----------------------------
(***************************************************************************)
(* CGPA calculator backend (src/cgpa_backend.py): the validation and       *)
(* calculation pipeline behind POST /api/calculate and the console mode.   *)
(*                                                                         *)
(* Numbers.  A grade point or a credit value is held in thousandths        *)
(* (9.0 is 9000, 8.555 is 8555, 0.01 is 10); a product gp * credits is in  *)
(* millionths.  All sums, products and quotients are exact.  round(x, 2)   *)
(* on a Python float returns the hundredth nearest to the float; when the  *)
(* exact quotient lies halfway between two hundredths the float's          *)
(* representation error decides the side (round(8.555, 2) = 8.55,          *)
(* round(8.865, 2) = 8.86, round(0.375, 2) = 0.38), so the model allows    *)
(* both neighbours there and exactly one hundredth everywhere else.        *)
(*                                                                         *)
(* JSON values.  A value is [k, v]: k = "num" a finite number v, "nan",    *)
(* "inf" (v = 1 for Infinity, -1 for -Infinity; Python's json module reads *)
(* NaN and Infinity, and float(input()) reads "nan" and "inf"), "str" a    *)
(* string that float() parses to v, "bad" a value float() rejects (a       *)
(* non-numeric string, null, a list), "huge" an integer beyond the float    *)
(* range (float() raises OverflowError), "absent" a missing key.           *)
(***************************************************************************)
EXTENDS Integers, Sequences, FiniteSets

VARIABLES
    pc,          \* "pending": the input is in flight; "done": it was handled
    path,        \* the entry point: "http" (POST /api/calculate), "console",
                 \* "health" (GET /api/health), "sample" (GET /api/sample)
    request,     \* the JSON body posted, or the record the console read
    typed,       \* what is typed at the console
    validated,   \* validate_data returned without raising
    calculated,  \* process_calculation was called
    response     \* the HTTP response, or what the console printed

vars == <<pc, path, request, typed, validated, calculated, response>>

\* Bounds of the enumerated inputs.
MaxSem == 2
MaxSub == 2

\* The grade point scale's upper end, 10, in thousandths.
MaxGP == 10000

-----------------------------------------------------------------------------
\* JSON values

Num(x) == [k |-> "num", v |-> x]
NaN == [k |-> "nan", v |-> 0]
Inf(sign) == [k |-> "inf", v |-> sign]
Str(x) == [k |-> "str", v |-> x]
Bad == [k |-> "bad", v |-> 0]
Huge == [k |-> "huge", v |-> 0]
Absent == [k |-> "absent", v |-> 0]

Subject(g, c) == [k |-> "obj", gp |-> g, credits |-> c]
NotObjSubject == [k |-> "other", gp |-> Absent, credits |-> Absent]

\* A semester entry: an object (with or without a "subjects" key), or not an
\* object: "scalar" a number, boolean or null; "seq_with" a string or list
\* that contains "subjects"; "seq_without" a string or list that does not.
Semester(subs) == [k |-> "obj", subjects |-> [k |-> "list", items |-> subs]]
SemesterNoSubjects == [k |-> "obj", subjects |-> [k |-> "absent", items |-> <<>>]]
SemesterSubjectsNotList == [k |-> "obj", subjects |-> [k |-> "other", items |-> <<>>]]
NotObjSemester(shape) == [k |-> shape, subjects |-> [k |-> "absent", items |-> <<>>]]

\* A request body: "falsy" is no JSON, null, {}, [], 0 or ""; "other" is any
\* other JSON value that is not an object.
Record(sems) == [k |-> "obj", semesters |-> [k |-> "list", items |-> sems]]
BodyNoSemesters == [k |-> "obj", semesters |-> [k |-> "absent", items |-> <<>>]]
BodySemestersNotList == [k |-> "obj", semesters |-> [k |-> "other", items |-> <<>>]]
BodyFalsy == [k |-> "falsy", semesters |-> [k |-> "absent", items |-> <<>>]]
BodyNotObj == [k |-> "other", semesters |-> [k |-> "absent", items |-> <<>>]]
NoRequest == [k |-> "none", semesters |-> [k |-> "absent", items |-> <<>>]]

-----------------------------------------------------------------------------
\* Responses, results, exceptions and messages

\* An HTTP response (its status, its JSON "status" as kind, "message" as msg,
\* "data", "sample_input") or, with status 0, what the console printed; exc
\* is the exception the handler caught
Response(code, what, e, m, d) ==
    [status |-> code, kind |-> what, exc |-> e, msg |-> m, data |-> d,
     sample_input |-> NoRequest]

\* The dictionary process_calculation returns, and one of its semester_details
EmptyResult ==
    [sgpas |-> <<>>, cgpa |-> Absent, total_semesters |-> 0, semester_details |-> <<>>]

SemesterDetail(i, s, c, n) ==
    [semester |-> i, sgpa |-> s, total_credits |-> c, subject_count |-> n]


NoMsg == [text |-> "", sem |-> 0, sub |-> 0, val |-> Absent]
Msg(t, sem_i, sub_i, x) == [text |-> t, sem |-> sem_i, sub |-> sub_i, val |-> x]
Returned == [exc |-> "none", msg |-> NoMsg]
Raise(e, m) == [exc |-> e, msg |-> m]

NoResponse == Response(0, "none", "none", NoMsg, EmptyResult)


-----------------------------------------------------------------------------
\* Validation module

\* The exception float(x) raises: ValueError (or TypeError, caught by the same
\* except clause) on a value that is no number, OverflowError on an integer
\* beyond the float range
FloatRaises(x) ==
    CASE x.k = "bad" -> "ValueError"
      [] x.k = "huge" -> "OverflowError"
      [] OTHER -> "none"

\* float(x), for x that float() accepts
Float(x) == IF x.k = "str" THEN Num(x.v) ELSE x

\* x < c, x > c and x <= c on a float x and a finite c: every comparison with
\* NaN is false
Lt(x, c) ==
    CASE x.k = "num" -> x.v < c
      [] x.k = "inf" -> x.v < 0
      [] OTHER -> FALSE

Gt(x, c) ==
    CASE x.k = "num" -> x.v > c
      [] x.k = "inf" -> x.v > 0
      [] OTHER -> FALSE

Le(x, c) ==
    CASE x.k = "num" -> x.v <= c
      [] x.k = "inf" -> x.v < 0
      [] OTHER -> FALSE

parse_api_input(data) ==
    IF data.k # "obj" \/ data.semesters.k = "absent"
    THEN Raise("ValueError", Msg("Invalid input format. Expected JSON with 'semesters' key.", 0, 0, Absent))
    ELSE IF data.semesters.k # "list" \/ Len(data.semesters.items) = 0
    THEN Raise("ValueError", Msg("Semesters must be a non-empty list.", 0, 0, Absent))
    ELSE Returned

SubjectsFieldError(sem_i) ==
    Raise("ValueError", Msg("Semester {sem_i}: Missing or invalid 'subjects' field", sem_i, 0, Absent))

NoSubjectsError(sem_i) ==
    Raise("ValueError", Msg("Semester {sem_i} has no subjects!", sem_i, 0, Absent))

NotObjectError(sem_i, sub_i) ==
    Raise("ValueError", Msg("Semester {sem_i}, Subject {sub_i}: Subject must be an object", sem_i, sub_i, Absent))

MissingFieldError(sem_i, sub_i) ==
    Raise("ValueError", Msg("Semester {sem_i}, Subject {sub_i}: Missing 'gp' or 'credits' field", sem_i, sub_i, Absent))

NotNumberError(sem_i, sub_i) ==
    Raise("ValueError", Msg("Semester {sem_i}, Subject {sub_i}: GP and Credits must be numbers", sem_i, sub_i, Absent))

\* Variant: the range message without its "got {gp}"
GpRangeErrorNoValue(sem_i, sub_i, gp) ==
    Raise("ValueError", Msg("Semester {sem_i}, Subject {sub_i}: GP must be between 0-10", sem_i, sub_i, Absent))

GpRangeError(sem_i, sub_i, gp) ==
    Raise("ValueError", Msg("Semester {sem_i}, Subject {sub_i}: GP must be between 0-10, got {gp}", sem_i, sub_i, gp))

CreditsRangeError(sem_i, sub_i, cr) ==
    Raise("ValueError", Msg("Semester {sem_i}, Subject {sub_i}: Credits must be positive, got {cr}", sem_i, sub_i, cr))

\* The body of the loop over a semester's subjects
ValidateSubject(sem_i, sub_i, subject) ==
    IF subject.k # "obj" THEN NotObjectError(sem_i, sub_i)
    ELSE IF subject.gp.k = "absent" \/ subject.credits.k = "absent"
    THEN MissingFieldError(sem_i, sub_i)
    ELSE IF FloatRaises(subject.gp) = "ValueError" THEN NotNumberError(sem_i, sub_i)
    ELSE IF FloatRaises(subject.gp) = "OverflowError"
    THEN Raise("OverflowError", Msg("int too large to convert to float", 0, 0, Absent))
    ELSE IF FloatRaises(subject.credits) = "ValueError" THEN NotNumberError(sem_i, sub_i)
    ELSE IF FloatRaises(subject.credits) = "OverflowError"
    THEN Raise("OverflowError", Msg("int too large to convert to float", 0, 0, Absent))
    ELSE LET gp == Float(subject.gp)
             cr == Float(subject.credits)
         IN  IF Lt(gp, 0) \/ Gt(gp, MaxGP) THEN GpRangeError(sem_i, sub_i, gp)
             ELSE IF Le(cr, 0) THEN CreditsRangeError(sem_i, sub_i, cr)
             ELSE Returned

RECURSIVE ValidateSubjects(_, _, _)
ValidateSubjects(sem_i, subjects, sub_i) ==
    IF sub_i > Len(subjects) THEN Returned
    ELSE LET r == ValidateSubject(sem_i, sub_i, subjects[sub_i])
         IN  IF r.exc # "none" THEN r
             ELSE ValidateSubjects(sem_i, subjects, sub_i + 1)

\* The body of the loop over the semesters.  '"subjects" not in sem' raises
\* TypeError on a number, boolean or null, and is a containment test on a
\* string or list; sem["subjects"] raises TypeError on a string or list.
ValidateSemester(sem_i, sem) ==
    IF sem.k = "scalar"
    THEN Raise("TypeError", Msg("argument of type is not iterable", 0, 0, Absent))
    ELSE IF sem.k = "seq_without" THEN SubjectsFieldError(sem_i)
    ELSE IF sem.k = "seq_with"
    THEN Raise("TypeError", Msg("indices must be integers", 0, 0, Absent))
    ELSE IF sem.subjects.k # "list" THEN SubjectsFieldError(sem_i)
    ELSE IF Len(sem.subjects.items) = 0 THEN NoSubjectsError(sem_i)
    ELSE ValidateSubjects(sem_i, sem.subjects.items, 1)

RECURSIVE ValidateSemesters(_, _)
ValidateSemesters(semesters, sem_i) ==
    IF sem_i > Len(semesters) THEN Returned
    ELSE LET r == ValidateSemester(sem_i, semesters[sem_i])
         IN  IF r.exc # "none" THEN r
             ELSE ValidateSemesters(semesters, sem_i + 1)

validate_data(data) == ValidateSemesters(data.semesters.items, 1)

-----------------------------------------------------------------------------
\* Calculation module

Sign(n) == IF n > 0 THEN 1 ELSE IF n < 0 THEN -1 ELSE 0

\* a * b on floats
FMul(a, b) ==
    IF a.k = "nan" \/ b.k = "nan" THEN NaN
    ELSE IF a.k = "inf" /\ b.k = "inf" THEN Inf(a.v * b.v)
    ELSE IF a.k = "inf" THEN (IF b.v = 0 THEN NaN ELSE Inf(a.v * Sign(b.v)))
    ELSE IF b.k = "inf" THEN (IF a.v = 0 THEN NaN ELSE Inf(b.v * Sign(a.v)))
    ELSE Num(a.v * b.v)

\* a + b on floats
FAdd(a, b) ==
    IF a.k = "nan" \/ b.k = "nan" THEN NaN
    ELSE IF a.k = "inf" /\ b.k = "inf" THEN (IF a.v = b.v THEN a ELSE NaN)
    ELSE IF a.k = "inf" THEN a
    ELSE IF b.k = "inf" THEN b
    ELSE Num(a.v + b.v)

\* sum(...) over a sequence of floats, from the start value 0
RECURSIVE Sum(_, _, _)
Sum(vals, i, acc) ==
    IF i > Len(vals) THEN acc ELSE Sum(vals, i + 1, FAdd(acc, vals[i]))

\* The integers nearest to the exact quotient n / d, d # 0: one integer, or
\* both neighbours when the quotient lies exactly halfway
NearestInts(n, d) ==
    LET nn == IF d < 0 THEN -n ELSE n
        dd == IF d < 0 THEN -d ELSE d
        q == nn \div dd
        r == nn % dd
    IN  IF 2 * r < dd THEN {q}
        ELSE IF 2 * r > dd THEN {q + 1}
        ELSE {q, q + 1}

\* round(a / b, 2), in thousandths, where a / b is in thousandths (a in
\* millionths over b in thousandths, or a in thousandths over a count b):
\* the exception the division raises, or the values the rounding can return
RoundQuotient(a, b) ==
    IF b.k = "num" /\ b.v = 0 THEN [exc |-> "ZeroDivisionError", vals |-> {}]
    ELSE IF a.k = "nan" \/ b.k = "nan" THEN [exc |-> "none", vals |-> {NaN}]
    ELSE IF a.k = "inf" /\ b.k = "inf" THEN [exc |-> "none", vals |-> {NaN}]
    ELSE IF a.k = "inf" THEN [exc |-> "none", vals |-> {Inf(a.v * Sign(b.v))}]
    ELSE IF b.k = "inf" THEN [exc |-> "none", vals |-> {Num(0)}]
    ELSE [exc |-> "none", vals |-> {Num(10 * h) : h \in NearestInts(a.v, 10 * b.v)}]

\* An operand the arithmetic of calculate_sgpa raises TypeError on: a string
\* (str * str and float * str raise in the product; int * str is a string
\* that sum() cannot add to its start value 0) or null
NotArithmetic(x) == x.k \notin {"num", "nan", "inf"}

\* Variant: the plain mean of the grade points, credits ignored
calculate_sgpa_unweighted(subjects) ==
    IF \E i \in 1..Len(subjects) :
           NotArithmetic(subjects[i].gp) \/ NotArithmetic(subjects[i].credits)
    THEN [exc |-> "TypeError", vals |-> {}]
    ELSE LET total_gp == Sum([i \in 1..Len(subjects) |-> subjects[i].gp], 1, Num(0))
             total_credits ==
                 Sum([i \in 1..Len(subjects) |-> subjects[i].credits], 1, Num(0))
             q == RoundQuotient(total_gp, Num(Len(subjects)))
         IN  [exc |-> q.exc, vals |-> {<<v, total_credits>> : v \in q.vals}]

\* Variant: the points divided by the number of subjects, not by the credits
calculate_sgpa_per_subject(subjects) ==
    IF \E i \in 1..Len(subjects) :
           NotArithmetic(subjects[i].gp) \/ NotArithmetic(subjects[i].credits)
    THEN [exc |-> "TypeError", vals |-> {}]
    ELSE LET total_points ==
                 Sum([i \in 1..Len(subjects) |-> FMul(subjects[i].gp, subjects[i].credits)], 1, Num(0))
             total_credits ==
                 Sum([i \in 1..Len(subjects) |-> subjects[i].credits], 1, Num(0))
             q == RoundQuotient(total_points, Num(1000 * Len(subjects)))
         IN  [exc |-> q.exc, vals |-> {<<v, total_credits>> : v \in q.vals}]

\* calculate_sgpa(subjects): the exception raised, or the pairs
\* <<sgpa, total_credits>> it can return
calculate_sgpa(subjects) ==
    IF \E i \in 1..Len(subjects) :
           NotArithmetic(subjects[i].gp) \/ NotArithmetic(subjects[i].credits)
    THEN [exc |-> "TypeError", vals |-> {}]
    ELSE LET total_points ==
                 Sum([i \in 1..Len(subjects) |-> FMul(subjects[i].gp, subjects[i].credits)], 1, Num(0))
             total_credits ==
                 Sum([i \in 1..Len(subjects) |-> subjects[i].credits], 1, Num(0))
             q == RoundQuotient(total_points, total_credits)
         IN  [exc |-> q.exc, vals |-> {<<v, total_credits>> : v \in q.vals}]

\* Variant: the mean without round(), cut to thousandths
calculate_cgpa_unrounded(sgpas) ==
    LET total == Sum(sgpas, 1, Num(0))
    IN  IF Len(sgpas) = 0 THEN [exc |-> "ZeroDivisionError", vals |-> {}]
        ELSE IF total.k # "num" THEN [exc |-> "none", vals |-> {total}]
        ELSE [exc |-> "none", vals |-> {Num(total.v \div Len(sgpas))}]

\* Variant: round(..., 1)
calculate_cgpa_round1(sgpas) ==
    LET total == Sum(sgpas, 1, Num(0))
    IN  IF Len(sgpas) = 0 THEN [exc |-> "ZeroDivisionError", vals |-> {}]
        ELSE IF total.k # "num" THEN [exc |-> "none", vals |-> {total}]
        ELSE [exc |-> "none",
              vals |-> {Num(100 * h) : h \in NearestInts(total.v, 100 * Len(sgpas))}]

\* calculate_cgpa(sgpas): the exception raised, or the values it can return
calculate_cgpa(sgpas) == RoundQuotient(Sum(sgpas, 1, Num(0)), Num(Len(sgpas)))

\* The loop of process_calculation from semester i on, then the CGPA and the
\* returned dictionary: the set of outcomes [exc, result]
RECURSIVE ProcessFrom(_, _, _, _)
ProcessFrom(semesters, i, sgpa_list, details) ==
    IF i > Len(semesters)
    THEN LET c == calculate_cgpa(sgpa_list)
         IN  IF c.exc # "none" THEN {[exc |-> c.exc, result |-> EmptyResult]}
             ELSE {[exc |-> "none",
                    result |-> [sgpas |-> sgpa_list,
                                cgpa |-> x,
                                total_semesters |-> Len(sgpa_list),
                                semester_details |-> details]] : x \in c.vals}
    ELSE LET subjects == semesters[i].subjects.items
             r == calculate_sgpa(subjects)
         IN  IF r.exc # "none" THEN {[exc |-> r.exc, result |-> EmptyResult]}
             ELSE UNION {ProcessFrom(semesters, i + 1, Append(sgpa_list, p[1]),
                                     Append(details,
                                            SemesterDetail(i, p[1], p[2], Len(subjects))))
                        : p \in r.vals}

process_calculation(data) == ProcessFrom(data.semesters.items, 1, <<>>, <<>>)

-----------------------------------------------------------------------------
\* Result module and routes

format_api_response(result) ==
    Response(200, "success", "none",
             Msg("CGPA calculated successfully for {total_semesters} semesters",
                 0, 0, Num(result.total_semesters)),
             result)

\* The except clauses of calculate_cgpa_api: ValueError is a 400, any other
\* exception a 500
ApiError(e, m) ==
    IF e = "ValueError" THEN Response(400, "error", e, m, EmptyResult)
    ELSE Response(500, "error", e, m, EmptyResult)

\* calculate_cgpa_api on the JSON body `data`: how far the handler got and
\* what it returned
calculate_cgpa_api(data) ==
    IF data.k = "falsy"
    THEN {[validated |-> FALSE, calculated |-> FALSE,
           response |-> Response(400, "error", "none",
                                 Msg("No JSON data provided", 0, 0, Absent), EmptyResult)]}
    ELSE LET p == parse_api_input(data)
         IN  IF p.exc # "none"
             THEN {[validated |-> FALSE, calculated |-> FALSE,
                    response |-> ApiError(p.exc, p.msg)]}
             ELSE LET v == validate_data(data)
                  IN  IF v.exc # "none"
                      THEN {[validated |-> FALSE, calculated |-> FALSE,
                             response |-> ApiError(v.exc, v.msg)]}
                      ELSE {[validated |-> TRUE, calculated |-> TRUE,
                             response |-> IF r.exc # "none"
                                          THEN ApiError(r.exc, NoMsg)
                                          ELSE format_api_response(r.result)]
                            : r \in process_calculation(data)}

health_check ==
    Response(200, "healthy", "none", Msg("CGPA Calculator API is running", 0, 0, Absent),
             EmptyResult)

\* The example input of /api/sample
sample_data ==
    Record(<<Semester(<<Subject(Num(9000), Num(3000)),
                        Subject(Num(8500), Num(4000)),
                        Subject(Num(9200), Num(3000))>>),
             Semester(<<Subject(Num(8800), Num(4000)),
                        Subject(Num(9100), Num(3000)),
                        Subject(Num(8700), Num(3000))>>)>>)

get_sample_data ==
    [Response(200, "success", "none",
              Msg("Sample input format for CGPA calculation", 0, 0, Absent), EmptyResult)
     EXCEPT !.sample_input = sample_data]

\* What is typed at the console: "typed" carries the semester count and, per
\* semester, the subject count and the (gp, credits) pairs that float() read;
\* "malformed" is a token int() or float() rejects; "interrupt" is Ctrl-C.
Typed(n, ts) == [k |-> "typed", semesters |-> n, terms |-> ts]
TypedTerm(n, es) == [subjects |-> n, entries |-> es]
TypedMalformed == [k |-> "malformed", semesters |-> 0, terms |-> <<>>]
TypedInterrupt == [k |-> "interrupt", semesters |-> 0, terms |-> <<>>]
NoTyped == [k |-> "none", semesters |-> 0, terms |-> <<>>]

Max(a, b) == IF a > b THEN a ELSE b

\* get_console_input: range(1, n + 1) is empty for n <= 0
get_console_input(input) ==
    Record([sem \in 1..Max(input.semesters, 0) |->
               Semester([sub \in 1..Max(input.terms[sem].subjects, 0) |->
                            Subject(input.terms[sem].entries[sub][1],
                                    input.terms[sem].entries[sub][2])])])

\* The except clauses of run_console_mode
ConsoleError(e, m) ==
    IF e = "ValueError" THEN Response(0, "error", e, m, EmptyResult)
    ELSE IF e = "KeyboardInterrupt" THEN Response(0, "goodbye", e, m, EmptyResult)
    ELSE Response(0, "unexpected", e, m, EmptyResult)

show_console_results(result) == Response(0, "results", "none", NoMsg, result)

\* run_console_mode on what is input: the record read, how far it got and
\* what it printed
run_console_mode(input) ==
    IF input.k = "malformed"
    THEN {[request |-> NoRequest, validated |-> FALSE, calculated |-> FALSE,
           response |-> ConsoleError("ValueError", NoMsg)]}
    ELSE IF input.k = "interrupt"
    THEN {[request |-> NoRequest, validated |-> FALSE, calculated |-> FALSE,
           response |-> ConsoleError("KeyboardInterrupt", NoMsg)]}
    ELSE LET d == get_console_input(input)
             v == validate_data(d)
         IN  IF v.exc # "none"
             THEN {[request |-> d, validated |-> FALSE, calculated |-> FALSE,
                    response |-> ConsoleError(v.exc, v.msg)]}
             ELSE {[request |-> d, validated |-> TRUE, calculated |-> TRUE,
                    response |-> IF r.exc # "none"
                                 THEN ConsoleError(r.exc, NoMsg)
                                 ELSE show_console_results(r.result)]
                   : r \in process_calculation(d)}

-----------------------------------------------------------------------------
\* The inputs enumerated

SeqsUpTo(S, n) == UNION {[1..m -> S] : m \in 0..n}
SeqsFrom1(S, n) == UNION {[1..m -> S] : m \in 1..n}

OkSubject == Subject(Num(9000), Num(3000))

\* Bodies of every shape: up to MaxSem semester entries, each of any shape,
\* with up to MaxSub subjects
ShapeSubjects ==
    {OkSubject, NotObjSubject, Subject(Bad, Num(3000)), Subject(Num(MaxGP + 10), Num(3000))}

ShapeSemesters ==
    {NotObjSemester("scalar"), NotObjSemester("seq_with"), NotObjSemester("seq_without"),
     SemesterNoSubjects, SemesterSubjectsNotList}
    \cup {Semester(l) : l \in SeqsUpTo(ShapeSubjects, MaxSub)}

IsShapeBody(b) ==
    \/ b \in {BodyFalsy, BodyNotObj, BodyNoSemesters, BodySemestersNotList}
    \/ \E n \in 0..MaxSem : \E l \in [1..n -> ShapeSemesters] : b = Record(l)

\* Bodies of n semesters of m well-formed subjects, but for one probed subject
ProbeGPs ==
    {Num(-10), Num(0), Num(5), Num(8555), Num(MaxGP), Num(MaxGP + 10), NaN, Inf(1), Inf(-1),
     Str(9000), Str(11000), Bad, Huge, Absent}

ProbeCredits ==
    {Num(-1000), Num(-10), Num(0), Num(1), Num(3000), NaN, Inf(1), Inf(-1),
     Str(3000), Bad, Huge, Absent}

ProbeSubjects ==
    {NotObjSubject} \cup {Subject(gp, cr) : gp \in ProbeGPs, cr \in ProbeCredits}

IsProbeBody(b) ==
    \E n \in 1..MaxSem, m \in 1..MaxSub :
        \E pt \in 1..n, ps \in 1..m, probe \in ProbeSubjects :
            b = Record([t \in 1..n |->
                           Semester([s \in 1..m |->
                                        IF t = pt /\ s = ps THEN probe ELSE OkSubject])])

\* Well-formed bodies with finite numbers in range
CalcSubjects ==
    {Subject(Num(9000), Num(3000)), Subject(Num(9000), Num(1000)),
     Subject(Num(8555), Num(2000))}

CalcSemesters == {Semester(l) : l \in SeqsFrom1(CalcSubjects, MaxSub)}

IsCalcBody(b) ==
    \E n \in 1..MaxSem : \E l \in [1..n -> CalcSemesters] : b = Record(l)

\* Console sessions
ConsoleEntries == {<<Num(9000), Num(3000)>>, <<NaN, Num(1000)>>, <<Num(9000), Num(0)>>}

ConsoleTerms == {TypedTerm(Len(e), e) : e \in SeqsUpTo(ConsoleEntries, MaxSub)}

IsConsoleInput(t) ==
    \/ t \in {TypedMalformed, TypedInterrupt, Typed(-1, <<>>)}
    \/ \E n \in 0..MaxSem : \E l \in [1..n -> ConsoleTerms] : t = Typed(n, l)

-----------------------------------------------------------------------------
\* The state machine.  The server keeps nothing between requests and a
\* console session keeps nothing after it ends, so a behaviour is one request
\* in flight (or one console session about to be typed) and its handling.

Init ==
    /\ pc = "pending"
    /\ \/ /\ path = "http"
          /\ \/ IsShapeBody(request)
             \/ IsProbeBody(request)
             \/ IsCalcBody(request)
             \/ request = sample_data
          /\ typed = NoTyped
       \/ path = "console" /\ request = NoRequest /\ IsConsoleInput(typed)
       \/ path \in {"health", "sample"} /\ request = NoRequest /\ typed = NoTyped
    /\ validated = FALSE
    /\ calculated = FALSE
    /\ response = NoResponse

CalculateCgpaApi ==
    /\ pc = "pending" /\ path = "http"
    /\ \E o \in calculate_cgpa_api(request) :
           /\ validated' = o.validated
           /\ calculated' = o.calculated
           /\ response' = o.response
    /\ pc' = "done"
    /\ UNCHANGED <<path, request, typed>>

RunConsoleMode ==
    /\ pc = "pending" /\ path = "console"
    /\ \E o \in run_console_mode(typed) :
           /\ request' = o.request
           /\ validated' = o.validated
           /\ calculated' = o.calculated
           /\ response' = o.response
    /\ pc' = "done"
    /\ UNCHANGED <<path, typed>>

HealthCheck ==
    /\ pc = "pending" /\ path = "health"
    /\ response' = health_check
    /\ pc' = "done"
    /\ UNCHANGED <<path, request, typed, validated, calculated>>

GetSampleData ==
    /\ pc = "pending" /\ path = "sample"
    /\ response' = get_sample_data
    /\ pc' = "done"
    /\ UNCHANGED <<path, request, typed, validated, calculated>>

Next == CalculateCgpaApi \/ RunConsoleMode \/ HealthCheck \/ GetSampleData

Spec == Init /\ [][Next]_vars

-----------------------------------------------------------------------------
\* What the properties below speak of

Semesters == request.semesters.items
SubjectsOf(sem) == sem.subjects.items

\* The request was handled by the pipeline (HTTP or console)
Handled == pc = "done" /\ path \in {"http", "console"}

\* validate_data was called: on the HTTP path after parse_api_input returned,
\* on the console path after the record was read
ValidateRan ==
    /\ Handled
    /\ \/ /\ path = "http"
          /\ request.k = "obj"
          /\ request.semesters.k = "list"
          /\ Len(Semesters) > 0
       \/ path = "console" /\ typed.k = "typed"

\* The number a field stands for, when it is a finite number or a numeric string
IsFinite(x) == x.k \in {"num", "str"}

\* 0 <= gradePoint <= 10 and credits > 0, on the reals extended by the infinities
GradePointInRange(x) == IsFinite(x) /\ 0 <= x.v /\ x.v <= MaxGP
CreditsPositive(x) == (IsFinite(x) /\ x.v > 0) \/ (x.k = "inf" /\ x.v = 1) \/ x.k = "huge"

\* The violations of section 4.1, by position
TermViolates(sem) ==
    sem.k # "obj" \/ sem.subjects.k # "list" \/ Len(SubjectsOf(sem)) = 0

TypeFailure(sub) == sub.gp.k = "bad" \/ sub.credits.k = "bad"

SubjectViolates(sub) ==
    \/ sub.k # "obj"
    \/ sub.gp.k = "absent" \/ sub.credits.k = "absent"
    \/ TypeFailure(sub)
    \/ ~GradePointInRange(sub.gp)
    \/ ~CreditsPositive(sub.credits)

TermHasViolation(sem) ==
    TermViolates(sem) \/ \E s \in 1..Len(SubjectsOf(sem)) : SubjectViolates(SubjectsOf(sem)[s])

HasViolation == \E t \in 1..Len(Semesters) : TermHasViolation(Semesters[t])

FirstViolatingTerm ==
    CHOOSE t \in 1..Len(Semesters) :
        /\ TermHasViolation(Semesters[t])
        /\ \A u \in 1..(t - 1) : ~TermHasViolation(Semesters[u])

\* 0 for a violation of the term itself
FirstViolatingSubject(sem) ==
    IF TermViolates(sem) THEN 0
    ELSE CHOOSE s \in 1..Len(SubjectsOf(sem)) :
             /\ SubjectViolates(SubjectsOf(sem)[s])
             /\ \A u \in 1..(s - 1) : ~SubjectViolates(SubjectsOf(sem)[u])

\* A record of the data model of section 3: at least one term, every term at
\* least one subject, every grade point a finite number in [0, 10] and every
\* credit value a finite number above 0
ValidSubject(sub) ==
    /\ sub.k = "obj"
    /\ sub.gp.k = "num" /\ 0 <= sub.gp.v /\ sub.gp.v <= MaxGP
    /\ sub.credits.k = "num" /\ sub.credits.v > 0

ValidTerm(sem) ==
    /\ sem.k = "obj" /\ sem.subjects.k = "list" /\ Len(SubjectsOf(sem)) > 0
    /\ \A s \in 1..Len(SubjectsOf(sem)) : ValidSubject(SubjectsOf(sem)[s])

ValidRecord ==
    /\ request.k = "obj" /\ request.semesters.k = "list" /\ Len(Semesters) > 0
    /\ \A t \in 1..Len(Semesters) : ValidTerm(Semesters[t])

\* f[1] + ... + f[n]
RECURSIVE Total(_, _)
Total(f, n) == IF n = 0 THEN 0 ELSE f[n] + Total(f, n - 1)

Abs(n) == IF n < 0 THEN -n ELSE n

\* Sum of gp * credits (millionths) and of credits (thousandths) of a valid term
PointsOf(sem) ==
    Total([s \in 1..Len(SubjectsOf(sem)) |->
              SubjectsOf(sem)[s].gp.v * SubjectsOf(sem)[s].credits.v], Len(SubjectsOf(sem)))

CreditsOf(sem) ==
    Total([s \in 1..Len(SubjectsOf(sem)) |-> SubjectsOf(sem)[s].credits.v], Len(SubjectsOf(sem)))

\* x (thousandths) is a multiple of 0.01 nearest to the exact quotient n / d,
\* where n / d is in thousandths and d > 0
IsRounded2(x, n, d) ==
    /\ x.k = "num"
    /\ x.v % 10 = 0
    /\ 2 * Abs(n - x.v * d) <= 10 * d

-----------------------------------------------------------------------------
\* C1: validate_data stops at the first violation in input order: whenever the
\* record it is given holds a violation, the error raised is a validation
\* error that carries the 1-based index of the earliest violating term and,
\* for a violation of a subject, the 1-based index of the earliest violating
\* subject of that term.
C1_FirstViolationReported ==
    ValidateRan /\ HasViolation
    => /\ response.exc = "ValueError"
       /\ response.msg.sem = FirstViolatingTerm
       /\ response.msg.sub = FirstViolatingSubject(Semesters[FirstViolatingTerm])

\* C2: a record whose semesters list is empty, or that holds a term whose
\* subjects list is empty, is rejected with a validation error before any
\* calculation runs, on the HTTP path and on the console path; when the empty
\* term is the first violation the error names that term.
HasEmptyList ==
    /\ request.k = "obj" /\ request.semesters.k = "list"
    /\ \/ Len(Semesters) = 0
       \/ \E t \in 1..Len(Semesters) :
              /\ Semesters[t].k = "obj" /\ Semesters[t].subjects.k = "list"
              /\ Len(SubjectsOf(Semesters[t])) = 0

C2_EmptyListsRejected ==
    Handled /\ HasEmptyList
    => /\ response.exc = "ValueError"
       /\ ~calculated
       /\ (path = "http" => response.status = 400)
       /\ (/\ Len(Semesters) > 0
           /\ Semesters[FirstViolatingTerm].k = "obj"
           /\ Semesters[FirstViolatingTerm].subjects.k = "list"
           /\ Len(SubjectsOf(Semesters[FirstViolatingTerm])) = 0
           => response.msg.sem = FirstViolatingTerm)

\* C3: a record whose subjects all have numeric gp and credits passes
\* validate_data if and only if every subject has 0 <= gp <= 10 and
\* credits > 0.
AllNumeric ==
    \A t \in 1..Len(Semesters) :
        /\ Semesters[t].k = "obj" /\ Semesters[t].subjects.k = "list"
        /\ Len(SubjectsOf(Semesters[t])) > 0
        /\ \A s \in 1..Len(SubjectsOf(Semesters[t])) :
               /\ SubjectsOf(Semesters[t])[s].k = "obj"
               /\ SubjectsOf(Semesters[t])[s].gp.k \in {"num", "nan", "inf", "huge"}
               /\ SubjectsOf(Semesters[t])[s].credits.k \in {"num", "nan", "inf", "huge"}

C3_AcceptsIffInRange ==
    ValidateRan /\ AllNumeric
    => (validated <=>
            \A t \in 1..Len(Semesters) : \A s \in 1..Len(SubjectsOf(Semesters[t])) :
                /\ GradePointInRange(SubjectsOf(Semesters[t])[s].gp)
                /\ CreditsPositive(SubjectsOf(Semesters[t])[s].credits))

\* C4: a malformed POST /api/calculate body (not an object, 'semesters'
\* missing or not a list, a semester entry that is not an object, 'subjects'
\* missing or not a list, a subject that is not an object or lacks 'gp' or
\* 'credits', an empty semesters or subjects list) is answered 400 with
\* status "error": never 500, never 200.
MalformedSubject(sub) ==
    sub.k # "obj" \/ sub.gp.k = "absent" \/ sub.credits.k = "absent"

Malformed ==
    \/ request.k # "obj"
    \/ request.semesters.k # "list"
    \/ Len(Semesters) = 0
    \/ \E t \in 1..Len(Semesters) :
           \/ TermViolates(Semesters[t])
           \/ \E s \in 1..Len(SubjectsOf(Semesters[t])) :
                  MalformedSubject(SubjectsOf(Semesters[t])[s])

C4_MalformedIs400 ==
    pc = "done" /\ path = "http" /\ Malformed
    => response.status = 400 /\ response.kind = "error"

\* C5: a record that passes validate_data holds only numbers as gp and
\* credits, and process_calculation on it does not raise: the HTTP path
\* answers 200, the console path prints the results.
OnlyNumbers ==
    \A t \in 1..Len(Semesters) : \A s \in 1..Len(SubjectsOf(Semesters[t])) :
        /\ SubjectsOf(Semesters[t])[s].gp.k \in {"num", "nan", "inf"}
        /\ SubjectsOf(Semesters[t])[s].credits.k \in {"num", "nan", "inf"}

C5_ValidatedNeverRaises ==
    Handled /\ validated
    => /\ OnlyNumbers
       /\ response.exc = "none"
       /\ (path = "http" => response.status = 200)
       /\ (path = "console" => response.kind = "results")

\* C6: for a valid record the result holds, per term in input order, the
\* weighted mean sum(gp * credits) / sum(credits) rounded to 2 places and
\* total_credits = sum(credits), and cgpa is the plain mean of those rounded
\* SGPAs rounded to 2 places, whatever credits the terms carry.
C6_ResultIsRoundedMeans ==
    Handled /\ ValidRecord
    => /\ response.exc = "none"
       /\ response.data.total_semesters = Len(Semesters)
       /\ Len(response.data.sgpas) = Len(Semesters)
       /\ Len(response.data.semester_details) = Len(Semesters)
       /\ \A t \in 1..Len(Semesters) :
              /\ IsRounded2(response.data.sgpas[t], PointsOf(Semesters[t]), CreditsOf(Semesters[t]))
              /\ response.data.semester_details[t] =
                     SemesterDetail(t, response.data.sgpas[t], Num(CreditsOf(Semesters[t])),
                                    Len(SubjectsOf(Semesters[t])))
       /\ IsRounded2(response.data.cgpa,
                     Total([t \in 1..Len(Semesters) |-> response.data.sgpas[t].v], Len(Semesters)),
                     Len(Semesters))

\* A valid record of two terms with different credits, answered
C6_Witness ==
    /\ Handled /\ ValidRecord /\ response.exc = "none"
    /\ Len(Semesters) = 2
    /\ CreditsOf(Semesters[1]) # CreditsOf(Semesters[2])
    /\ response.data.sgpas[1] # response.data.sgpas[2]
    /\ Len(SubjectsOf(Semesters[1])) = 2

\* C7 as claimed: the sample record yields SGPA 8.87 and 8.86 and CGPA 8.87.
C7_SampleAsClaimed ==
    pc = "done" /\ path = "http" /\ request = sample_data
    => /\ response.data.sgpas = <<Num(8870), Num(8860)>>
       /\ response.data.cgpa = Num(8870)

\* C7, amended: the sample record yields SGPA 8.86 for both semesters
\* (88.6 / 10 each) and CGPA 8.86.
C7_SampleResult ==
    pc = "done" /\ path = "http" /\ request = sample_data
    => /\ response.status = 200
       /\ response.data.sgpas = <<Num(8860), Num(8860)>>
       /\ response.data.cgpa = Num(8860)

C7_Witness ==
    pc = "done" /\ path = "http" /\ request = sample_data /\ response.kind = "success"

\* C8 as claimed: a valid term whose subjects all have grade point g has
\* sgpa = g.
SameGradePoint(sem) ==
    \A s \in 1..Len(SubjectsOf(sem)) : SubjectsOf(sem)[s].gp = SubjectsOf(sem)[1].gp

ReportedSubject == SubjectsOf(Semesters[response.msg.sem])[response.msg.sub]

SubjectErrorReported ==
    /\ ValidateRan /\ response.exc = "ValueError" /\ response.msg.sub >= 1
    /\ ~MalformedSubject(ReportedSubject)

C10_ValueInRangeAndTypeErrors ==
    SubjectErrorReported
    => response.msg.sem >= 1 /\ response.msg.val.k # "absent"

\* C10, amended: the ValueError for a range failure carries the 1-based term and
\* subject indices and the offending value as float() read it (the grade
\* point when it is outside [0, 10], else the credits); the error for a type
\* failure carries the indices only.
GradePointOutside(x) ==
    (IsFinite(x) /\ (x.v < 0 \/ x.v > MaxGP)) \/ x.k \in {"inf", "huge"}

CreditsNotAbove0(x) ==
    (IsFinite(x) /\ x.v <= 0) \/ (x.k = "inf" /\ x.v = -1)

NumberRead(x) == IF x.k = "str" THEN Num(x.v) ELSE x

C10_ValueInRangeErrorsOnly ==
    SubjectErrorReported
    => /\ response.msg.sem >= 1
       /\ IF TypeFailure(ReportedSubject) THEN response.msg.val = Absent
          ELSE IF GradePointOutside(ReportedSubject.gp)
          THEN response.msg.val = NumberRead(ReportedSubject.gp)
          ELSE /\ CreditsNotAbove0(ReportedSubject.credits)
               /\ response.msg.val = NumberRead(ReportedSubject.credits)

\* A grade point of 10.01 at term 2, subject 2, reported with its value
C10_Witness ==
    /\ SubjectErrorReported
    /\ response.msg.sem = 2 /\ response.msg.sub = 2
    /\ response.msg.val = Num(10010)

=============================================================================
